---------------------------- MODULE Spec2Model ----------------------------
(***************************************************************************)
(* Cost attribution of an AWS cost-and-usage report (cost_reports/finops)  *)
(* and the App that drives it (cost_reports/app).                          *)
(*                                                                         *)
(* Python values are records [kind, s]: kind is "None", "NaN", "str" or    *)
(* "num"; s is the text of a str as a sequence of one-character strings,   *)
(* so that comparisons and the regular-expression substitution work on     *)
(* the characters.  A call that raises TypeError yields the value          *)
(* TypeError, which every caller propagates.                               *)
(***************************************************************************)
EXTENDS Integers, Sequences, FiniteSets, TLC

\* -------------------------------------------------------------- state ----

\* finops.main
VARIABLES
    acct_rows,      \* the billing table read from cur_parquet, rows 1..n
    accounts,       \* the directory read from account_csv: account id -> default cost center
    pc,             \* "start", "returned" or "raised"
    exception,      \* what main raised, "" if nothing
    report_body,    \* the report as built so far: a sequence of [text, label, amount]
    by_center,      \* the groups: resolved label -> set of row indices
    center_summed,  \* the groups' sums, sorted descending: a sequence of [label, cost]
    total,          \* the sum of the group sums
    total_cost      \* the sum of the cost of every row of acct_rows

mainVars == <<acct_rows, accounts, pc, exception, report_body, by_center, center_summed, total, total_cost>>

\* the attribution functions, applied on their own
VARIABLES
    frame,          \* the joined frame handed to the function: index label -> row
    called,         \* the function applied last, "" before any
    checked,        \* the argument valid_value was given
    valid_ret,      \* what valid_value returned
    label_ret       \* what cost_center_lookup or group_by_cost_center returned (TypeError: it raised)

lookupVars == <<frame, called, checked, valid_ret, label_ret>>

\* app.App
VARIABLES
    org_pages,      \* the organization's account listing: a sequence of pages of [Id, Name, CostCenter]
    app_pc,         \* "idle", or "while" inside build_account_dict's loop
    accounts_list,  \* build_account_dict's local `accounts`
    token,          \* build_account_dict's local `token`
    app_op,         \* the method called last, "" before any
    account_dict,   \* self.account_dict: [keys, account_id, account_name, account_cost_center]
    cur_parquet,    \* self.cur_parquet: NoParquet is None
    bill_date,      \* self.bill_date
    munged_data,    \* self.munged_data
    app_total,      \* self.total
    app_exception,  \* what the last method raised, "" if nothing
    finops_args,    \* every (cur_parquet, account_dict) finops.main has been called with
    run_pc,         \* the method run() calls next; "" outside run(), "returned" or "raised" after it
    environ,        \* the names os.environ defines
    synapse_columns, \* the names of the columns of the Synapse table
    synapse_rows,   \* the rows of the Synapse table: a sequence of [bill_date, data, row]
    synapse_calls   \* the calls the last update_synapse made on App.synclient: [op, line, arg]

appVars == <<org_pages, app_pc, app_op, accounts_list, token, account_dict, cur_parquet, bill_date,
             munged_data, app_total, app_exception, finops_args,
             run_pc, environ, synapse_columns, synapse_rows, synapse_calls>>

\* the Synapse table and the environment, which only update_synapse reads or writes
synapseVars == <<environ, synapse_columns, synapse_rows, synapse_calls>>

vars == <<mainVars, lookupVars, appVars>>

\* ------------------------------------------------------------- values ----

None == [kind |-> "None", s |-> <<>>]
NaN == [kind |-> "NaN", s |-> <<>>]
TypeError == [kind |-> "TypeError", s |-> <<>>]
Str(chars) == [kind |-> "str", s |-> chars]
Num(chars) == [kind |-> "num", s |-> chars]

Separator == <<" ", "/", " ">>
na == Str(<<"n", "a">>)
EmptyStr == Str(<<>>)
Other000001 == Str(<<"O", "t", "h", "e", "r">> \o Separator \o <<"0", "0", "0", "0", "0", "1">>)
OtherUnspecified ==
    Str(<<"O", "t", "h", "e", "r", " ", "(", "U", "n", "s", "p", "e", "c", "i", "f", "i", "e", "d", ")">>
        \o Separator \o <<"0", "0", "0", "0", "0", "1">>)
Unknown999999 ==
    Str(<<"U", "n", "k", "n", "o", "w", "n">> \o Separator \o <<"9", "9", "9", "9", "9", "9">>)
Indirects == Str(<<"I", "n", "d", "i", "r", "e", "c", "t", "s">>)
NoProgramMixed ==
    Str(<<"N", "o", " ", "P", "r", "o", "g", "r", "a", "m">> \o Separator \o <<"0", "0", "0", "0", "0", "0">>)
NOPROGRAM ==
    Str(<<"N", "O", " ", "P", "R", "O", "G", "R", "A", "M">> \o Separator \o <<"0", "0", "0", "0", "0", "0">>)

\* values of the unit tests
TestTag == Str(<<"T", "e", "s", "t">> \o Separator \o <<"1", "2", "3", "1", "2", "3">>)
TestOtherTag ==
    Str(<<"T", "e", "s", "t", " ", "O", "t", "h", "e", "r">> \o Separator \o <<"4", "5", "6", "4", "5", "6">>)
TestAccountTag ==
    Str(<<"T", "e", "s", "t", " ", "A", "c", "c", "o", "u", "n", "t">> \o Separator
        \o <<"7", "8", "9", "7", "8", "9">>)
TestRegexIn == Str(<<"N", "a", "m", "e", "_", "1", "2", "3", "4", "5", "6">>)
TestRegexOut == Str(<<"N", "a", "m", "e">> \o Separator \o <<"1", "2", "3", "4", "5", "6">>)
Valid2 == Num(<<"1", ".", "2", "3">>)

\* further strings that exercise the pattern "(_)([0-9]{5,6})"
FiveDigits == Str(<<"A", "_", "1", "2", "3", "4", "5">>)
FourDigits == Str(<<"A", "_", "1", "2", "3", "4">>)
SevenDigits == Str(<<"A", "_", "1", "2", "3", "4", "5", "6", "7">>)

\* column names
ACCOUNT_ID_COLUMN == "line_item_usage_account_id"
VALUE_COLUMN == "line_item_unblended_cost"
COST_CENTER_COLUMN == "resource_tags_user_cost_center"
COST_CENTER_OTHER_COLUMN == "resource_tags_user_cost_center_other"
ACCOUNT_COST_CENTER_COLUMN == "account_cost_center"

\* TAG_REPLACEMENT, as the pairs of the dict
TAG_REPLACEMENT == {<<Indirects, NOPROGRAM>>, <<NoProgramMixed, NOPROGRAM>>}

\* TAG_REPLACEMENT.get(key, default)
TagReplacementGet(key, default) ==
    IF \E p \in TAG_REPLACEMENT : p[1] = key
    THEN (CHOOSE p \in TAG_REPLACEMENT : p[1] = key)[2]
    ELSE default

\* ------------------------------------------------------ finops helpers ----

Digits == {"0", "1", "2", "3", "4", "5", "6", "7", "8", "9"}

\* how many of the characters chars[i], chars[i+1], ... are digits, up to limit
RECURSIVE DigitRun(_, _, _)
DigitRun(chars, i, limit) ==
    IF limit = 0 \/ i > Len(chars) \/ chars[i] \notin Digits
    THEN 0
    ELSE 1 + DigitRun(chars, i + 1, limit - 1)

\* re.sub(r"(_)([0-9]{5,6})", lambda x: " / " + x.group(2), chars), scanning from i:
\* the leftmost match, greedy (six digits when there are six), then on after it
RECURSIVE ReSubFrom(_, _)
ReSubFrom(chars, i) ==
    IF i > Len(chars)
    THEN <<>>
    ELSE IF chars[i] = "_" /\ DigitRun(chars, i + 1, 6) >= 5
         THEN LET k == DigitRun(chars, i + 1, 6)
              IN  Separator \o SubSeq(chars, i + 1, i + k) \o ReSubFrom(chars, i + k + 1)
         ELSE <<chars[i]>> \o ReSubFrom(chars, i + 1)

\* re.sub on a value: TypeError unless the value is a str
ReSub(value) ==
    IF value.kind = "str" THEN Str(ReSubFrom(value.s, 1)) ELSE TypeError

\* safe_at(df, r, c): df maps the index labels it holds to rows
safe_at(df, r, c) ==
    IF r \in DOMAIN df THEN df[r][c] ELSE None

\* valid_value(check_value): `is None or == 'na'`; NaN and numbers compare unequal to 'na'
valid_value(check_value) ==
    IF check_value.kind = "None" \/ check_value = na THEN FALSE ELSE TRUE

\* cost_center_lookup(df, row_index)
cost_center_lookup(df, row_index) ==
    LET cost_center == safe_at(df, row_index, COST_CENTER_COLUMN)
        other == safe_at(df, row_index, COST_CENTER_OTHER_COLUMN)
        escalated ==
            IF cost_center = Other000001
            THEN IF ~valid_value(other) THEN OtherUnspecified ELSE other
            ELSE cost_center
        substituted == ReSub(escalated)
    IN  IF ~valid_value(cost_center)
        THEN cost_center
        ELSE IF substituted = TypeError
             THEN TypeError
             ELSE TagReplacementGet(substituted, substituted)

\* group_by_cost_center(df, row_index)
group_by_cost_center(df, row_index) ==
    LET cost_center == cost_center_lookup(df, row_index)
        account_cost_center == safe_at(df, row_index, ACCOUNT_COST_CENTER_COLUMN)
    IN  IF cost_center = TypeError
        THEN TypeError
        ELSE IF valid_value(cost_center)
             THEN cost_center
             ELSE IF valid_value(account_cost_center)
                  THEN account_cost_center
                  ELSE Unknown999999


\* ------------------------------------------------- float64 arithmetic ----
\* Costs are float64 numbers of dollars.  The model counts in cents and keeps
\* the defining property of floating point, a significand of SigBits bits
\* (53 in float64): a sum is rounded to the nearest number that has such a
\* significand, ties to the even one.

SigBits == 3
MaxRows == 3

Abs(x) == IF x < 0 THEN 0 - x ELSE x

\* the spacing of the representable numbers around magnitude a, starting from u
RECURSIVE UlpFrom(_, _)
UlpFrom(a, u) == IF a < (2 ^ SigBits) * u THEN u ELSE UlpFrom(a, 2 * u)

Round(x) ==
    LET a == Abs(x)
        u == UlpFrom(a, 1)
        q == a \div u
        r == a % u
        n == IF 2 * r < u THEN q
             ELSE IF 2 * r > u THEN q + 1
             ELSE IF q % 2 = 0 THEN q ELSE q + 1
    IN  IF x < 0 THEN 0 - (n * u) ELSE n * u

FAdd(a, b) == Round(a + b)
FSub(a, b) == Round(a - b)

\* Series.sum(): the float sum of a sequence of numbers, left to right
RECURSIVE FSumFrom(_, _, _)
FSumFrom(seq, i, acc) ==
    IF i > Len(seq) THEN acc ELSE FSumFrom(seq, i + 1, FAdd(acc, seq[i]))

FSum(seq) == FSumFrom(seq, 1, 0)

\* ------------------------------------------------------- finops.main ----

Line(text, amount) == [text |-> text, label |-> None, amount |-> amount]

\* the costs of the rows whose index is in idxs, in index order
RECURSIVE CostsOf(_, _, _)
CostsOf(rows, idxs, i) ==
    IF i > Len(rows) THEN <<>>
    ELSE (IF i \in idxs THEN <<rows[i][VALUE_COLUMN]>> ELSE <<>>) \o CostsOf(rows, idxs, i + 1)

\* acct_rows[VALUE_COLUMN].sum()
TotalCost(rows) == FSum(CostsOf(rows, 1 .. Len(rows), 1))

\* acct_rows.join(accounts.set_index(ACCOUNT_ID_COLUMN), on=ACCOUNT_ID_COLUMN, how="inner"):
\* the rows whose account id is in the directory, under their own index labels
RECURSIVE JoinedFrom(_, _, _)
JoinedFrom(rows, accts, i) ==
    IF i > Len(rows) THEN <<>>
    ELSE IF rows[i][ACCOUNT_ID_COLUMN] \in DOMAIN accts
         THEN (i :> [line_item_usage_account_id |-> rows[i][ACCOUNT_ID_COLUMN],
                     line_item_unblended_cost |-> rows[i][VALUE_COLUMN],
                     resource_tags_user_cost_center |-> rows[i][COST_CENTER_COLUMN],
                     resource_tags_user_cost_center_other |-> rows[i][COST_CENTER_OTHER_COLUMN],
                     account_cost_center |-> accts[rows[i][ACCOUNT_ID_COLUMN]]])
              @@ JoinedFrom(rows, accts, i + 1)
         ELSE JoinedFrom(rows, accts, i + 1)

Joined(rows, accts) == JoinedFrom(rows, accts, 1)

\* Series.notna()
notna(value) == value.kind \notin {"None", "NaN"}

HasCenter(joined) ==
    {i \in DOMAIN joined :
        \/ notna(joined[i][COST_CENTER_COLUMN]) /\ joined[i][COST_CENTER_COLUMN] # na
        \/ notna(joined[i][ACCOUNT_COST_CENTER_COLUMN]) /\ joined[i][ACCOUNT_COST_CENTER_COLUMN] # na}

NoCenter(joined) ==
    {i \in DOMAIN joined :
        /\ ~notna(joined[i][COST_CENTER_COLUMN]) \/ joined[i][COST_CENTER_COLUMN] = na
        /\ ~notna(joined[i][ACCOUNT_COST_CENTER_COLUMN]) \/ joined[i][ACCOUNT_COST_CENTER_COLUMN] = na}

\* the grouping keys: the key function of line 95 applied to every index label of acct_rows
RECURSIVE KeysFrom(_, _, _)
KeysFrom(rows, joined, i) ==
    IF i > Len(rows) THEN <<>>
    ELSE <<group_by_cost_center(joined, i)>> \o KeysFrom(rows, joined, i + 1)

Keys(rows, joined) == KeysFrom(rows, joined, 1)

\* DataFrame.groupby(keys, dropna=...): label -> the rows that carry it
GroupBy(keys, dropna) ==
    LET kept == {i \in DOMAIN keys : ~dropna \/ notna(keys[i])}
    IN  [label \in {keys[i] : i \in kept} |-> {i \in kept : keys[i] = label}]

\* the grouping with pandas' default dropna=True: the rows of a null key are left out
ByCenterDropna(rows, joined) == GroupBy(Keys(rows, joined), TRUE)

\* acct_rows.groupby(lambda row_index: group_by_cost_center(joined, row_index), dropna=False)
ByCenter(rows, joined) == GroupBy(Keys(rows, joined), FALSE)

\* by_center.sum(): one [label, cost] per group, cost the float sum of the costs of its rows
Summed(rows, groups) ==
    {[label |-> l, cost |-> FSum(CostsOf(rows, groups[l], 1))] : l \in DOMAIN groups}

\* sort_values(VALUE_COLUMN, ascending=False) of the entries in left
RECURSIVE SortValues(_)
SortValues(left) ==
    IF left = {} THEN <<>>
    ELSE LET top == CHOOSE e \in left : \A f \in left : f.cost <= e.cost
         IN  <<top>> \o SortValues(left \ {top})

\* by_center.sum().sort_values(VALUE_COLUMN, ascending=False)[[VALUE_COLUMN]]
CenterSummed(rows, groups) == SortValues(Summed(rows, groups))

\* sorted[DISPLAY_VALUE_COLUMN].sum()
Total(summed) == FSum([i \in 1 .. Len(summed) |-> summed[i].cost])

\* the tolerance of line 118, in cents
Tolerance == 1

\* the comparison without abs(): a shortfall of the categorized costs passes
MismatchSigned(t, tc) == FSub(t, tc) > Tolerance

\* line 118: abs(total - total_cost) > 0.01
Mismatch(t, tc) == Abs(FSub(t, tc)) > Tolerance

\* the lines the report holds when the groupby of line 95 begins
ReportHead(joined) ==
    << Line("Total line items:", Cardinality(DOMAIN joined)),
       Line("Rows with Cost Center data:", Cardinality(HasCenter(joined))),
       Line("Rows without Cost Center data:", Cardinality(NoCenter(joined))) >>

\* sorted.to_string(): one line per group
ReportTable(summed) ==
    [i \in 1 .. Len(summed) |-> [text |-> "row", label |-> summed[i].label, amount |-> summed[i].cost]]

\* lines 122-130: the two breakdowns of the rows without a cost center
ReportTail == << Line("Costs without a known Program", 0), Line("Costs without a known Program", 0) >>

\* main(cur_parquet, account_csv); each local is bound to its value once
main ==
    /\ pc = "start"
    /\ \E joined \in {Joined(acct_rows, accounts)} :
       \E keys \in {Keys(acct_rows, joined)} :
       \E cost \in {TotalCost(acct_rows)} :
          /\ total_cost' = cost
          /\ IF \E i \in DOMAIN keys : keys[i] = TypeError
             THEN \* re.sub raises inside the key function of line 95
                  /\ pc' = "raised"
                  /\ exception' = "TypeError"
                  /\ report_body' = ReportHead(joined)
                  /\ UNCHANGED <<by_center, center_summed, total>>
             ELSE \E groups \in {ByCenter(acct_rows, joined)} :
                  \E summed \in {CenterSummed(acct_rows, groups)} :
                  \E sum \in {Total(summed)} :
                  \E body \in {ReportHead(joined) \o <<Line("Costs by Program", 0)>>
                                  \o ReportTable(summed)} :
                     /\ by_center' = groups
                     /\ center_summed' = summed
                     /\ total' = sum
                     /\ IF Mismatch(sum, cost)
                        THEN /\ pc' = "raised"
                             /\ exception' = "categorized costs do not add up to total bill."
                             /\ report_body' = body
                        ELSE /\ pc' = "returned"
                             /\ exception' = ""
                             /\ report_body' = body \o <<Line("Total:", sum)>> \o ReportTail
    /\ UNCHANGED <<acct_rows, accounts, lookupVars, appVars>>

\* the inputs: what read_parquet and read_csv can hand to main
AccountIds == {"111", "222"}
Costs == {0, 1, 2 ^ SigBits}
RowTags == {None, NaN, TestTag}
DirectoryDefaults == {NaN, TestAccountTag}

RowSet ==
    [line_item_usage_account_id : AccountIds,
     line_item_unblended_cost : Costs,
     resource_tags_user_cost_center : RowTags,
     resource_tags_user_cost_center_other : {None}]

Tables == UNION {[1 .. n -> RowSet] : n \in 0 .. MaxRows}
DirectoryIds == {"111"}
Directories == [DirectoryIds -> DirectoryDefaults]

\* ---------------------------------------- the attribution functions alone ----

\* the values a tag column or the account default can hold
Values ==
    {None, NaN, na, EmptyStr, Valid2, Other000001, TestTag, TestOtherTag, TestAccountTag,
     TestRegexIn, Indirects, NoProgramMixed, FiveDigits, FourDigits, SevenDigits}

\* the frames of at most one row: the row of index label 1 is there or is missing
Frames ==
    {<<>>} \cup
    {(1 :> [resource_tags_user_cost_center |-> cc,
            resource_tags_user_cost_center_other |-> cco,
            account_cost_center |-> acc]) : cc \in Values, cco \in Values, acc \in Values}

CallValidValue ==
    /\ called = ""
    /\ \E v \in Values :
        /\ checked' = v
        /\ valid_ret' = valid_value(v)
    /\ called' = "valid_value"
    /\ UNCHANGED <<frame, label_ret, mainVars, appVars>>

CallCostCenterLookup ==
    /\ called = ""
    /\ called' = "cost_center_lookup"
    /\ label_ret' = cost_center_lookup(frame, 1)
    /\ UNCHANGED <<frame, checked, valid_ret, mainVars, appVars>>

CallGroupByCostCenter ==
    /\ called = ""
    /\ called' = "group_by_cost_center"
    /\ label_ret' = group_by_cost_center(frame, 1)
    /\ UNCHANGED <<frame, checked, valid_ret, mainVars, appVars>>

\* ------------------------------------------------------------- app.App ----

MaxListCalls == 3

NoParquet == "None"
NoTag == "NoTag"
Unset == <<>>

\* self.account_dict = {} of line 29: a dict without keys
EmptyDict == [keys |-> {}, account_id |-> <<>>, account_name |-> <<>>, account_cost_center |-> <<>>]

\* the S3 objects download_cur_parquet can fetch
ParquetObjects == {"year=2022/month=6", "year=2022/month=7"}

OrgAccount(id, tag) == [Id |-> id, Name |-> id, CostCenter |-> tag]

\* listings of one or two pages, one account a page
OrgListings ==
    {<<<<OrgAccount("111", t)>>>> : t \in {NoTag, "Platform Infrastructure / 990300"}} \cup
    {<<<<OrgAccount("111", t)>>, <<OrgAccount("222", u)>>>> :
        t \in {NoTag, "Platform Infrastructure / 990300"}, u \in {NoTag, "Other / 000001"}}

\* App.orgclient.list_accounts(), called without a NextToken: the first page,
\* with a NextToken when the listing has more pages
ListAccounts(pages) ==
    [Accounts |-> pages[1], NextToken |-> IF Len(pages) > 1 THEN "page2" ELSE ""]

\* lines 123-139: the accounts that carry a CostCenter tag, as three lists
RECURSIVE TaggedFrom(_, _)
TaggedFrom(accts, i) ==
    IF i > Len(accts) THEN <<>>
    ELSE (IF accts[i].CostCenter # NoTag THEN <<accts[i]>> ELSE <<>>) \o TaggedFrom(accts, i + 1)

AccountDict(accts) ==
    LET tagged == TaggedFrom(accts, 1)
    IN  [keys |-> {"account_id", "account_name", "account_cost_center"},
         account_id |-> [i \in 1 .. Len(tagged) |-> tagged[i].Id],
         account_name |-> [i \in 1 .. Len(tagged) |-> tagged[i].Name],
         account_cost_center |-> [i \in 1 .. Len(tagged) |-> tagged[i].CostCenter]]

\* run(), lines 211-214: the methods in the order run calls them
RunMethods == <<"build_account_dict", "download_cur_parquet", "process_report", "update_synapse">>

\* a method can be called by run() when its turn has come, or on its own
\* when no run is under way
Callable(method) == run_pc \in {"", "returned", "raised", method}

\* run_pc after a method: inside run() an exception ends the run, otherwise the
\* next method is due and run returns after the last
RunThen(method, raised) ==
    IF run_pc # method THEN ""
    ELSE IF raised THEN "raised"
    ELSE IF method = RunMethods[Len(RunMethods)] THEN "returned"
    ELSE RunMethods[1 + CHOOSE i \in 1 .. Len(RunMethods) : RunMethods[i] = method]

\* build_account_dict, lines 102-112: the first list_accounts call
build_account_dict_first ==
    /\ app_pc = "idle"
    /\ Callable("build_account_dict")
    /\ run_pc' = IF run_pc = "build_account_dict" THEN run_pc ELSE ""
    /\ LET response == ListAccounts(org_pages)
       IN  /\ accounts_list' = response.Accounts
           /\ token' = response.NextToken
    /\ app_pc' = "while"
    /\ app_op' = "build_account_dict"
    /\ app_exception' = ""
    /\ UNCHANGED <<org_pages, account_dict, cur_parquet, bill_date, munged_data, app_total, finops_args,
                   synapseVars, mainVars, lookupVars>>

\* build_account_dict, lines 114-121: one turn of `while token != ''`
build_account_dict_while ==
    /\ app_pc = "while"
    /\ token # ""
    /\ Len(accounts_list) < MaxListCalls
    /\ LET response == ListAccounts(org_pages)
       IN  /\ accounts_list' = accounts_list \o response.Accounts
           /\ token' = response.NextToken
    /\ UNCHANGED <<org_pages, app_pc, app_op, account_dict, cur_parquet, bill_date, munged_data,
                   app_total, app_exception, finops_args, run_pc,
                   synapseVars, mainVars, lookupVars>>

\* build_account_dict, lines 123-139: after the loop
build_account_dict_tags ==
    /\ app_pc = "while"
    /\ token = ""
    /\ account_dict' = AccountDict(accounts_list)
    /\ app_pc' = "idle"
    /\ run_pc' = RunThen("build_account_dict", FALSE)
    /\ UNCHANGED <<org_pages, app_op, accounts_list, token, cur_parquet, bill_date, munged_data,
                   app_total, app_exception, finops_args,
                   synapseVars, mainVars, lookupVars>>

\* download_cur_parquet
download_cur_parquet ==
    /\ app_pc = "idle"
    /\ Callable("download_cur_parquet")
    /\ cur_parquet' \in ParquetObjects
    /\ app_op' = "download_cur_parquet"
    /\ app_exception' = ""
    /\ run_pc' = RunThen("download_cur_parquet", FALSE)
    /\ UNCHANGED <<org_pages, app_pc, accounts_list, token, account_dict, bill_date, munged_data,
                   app_total, finops_args,
                   synapseVars, mainVars, lookupVars>>

\* line 144, `self.account_dict is {}`: the identity of account_dict and a dict
\* created by the comparison itself
IsNewDict(d) == FALSE

\* what finops.main hands back to process_report when it returns:
\* (bill_date, munged_data, total) of the report and the directory it was given
FinopsResult(parquet, dict) ==
    [bill_date |-> <<parquet>>, munged_data |-> <<parquet, dict>>, total |-> <<"total", parquet>>]

\* process_report
process_report ==
    /\ app_pc = "idle"
    /\ Callable("process_report")
    /\ app_op' = "process_report"
    /\ IF IsNewDict(account_dict)
       THEN /\ app_exception' = "No account tag data loaded"
            /\ UNCHANGED <<bill_date, munged_data, app_total, finops_args,
                   mainVars, lookupVars>>
       ELSE IF cur_parquet = NoParquet
            THEN /\ app_exception' = "No cost and usage data loaded"
                 /\ UNCHANGED <<bill_date, munged_data, app_total, finops_args,
                   mainVars, lookupVars>>
            ELSE /\ finops_args' = finops_args \cup {<<cur_parquet, account_dict>>}
                 /\ \E raises \in BOOLEAN :
                        IF raises
                        THEN /\ app_exception' = "finops.main"
                             /\ UNCHANGED <<bill_date, munged_data, app_total>>
                        ELSE LET r == FinopsResult(cur_parquet, account_dict)
                             IN  /\ bill_date' = r.bill_date
                                 /\ munged_data' = r.munged_data
                                 /\ app_total' = r.total
                                 /\ app_exception' = ""
    /\ run_pc' = RunThen("process_report", app_exception' # "")
    /\ UNCHANGED <<org_pages, app_pc, accounts_list, token, account_dict, cur_parquet,
                   synapseVars, mainVars, lookupVars>>

\* the environment variables update_synapse needs
SynapseEnviron == {"SYNAPSE_TABLE", "SYNAPSE_AUTH_TOKEN"}

\* os.environ['SYNAPSE_TABLE']
TableId == <<"SYNAPSE_TABLE">>

\* the names of synapseclient.as_table_columns(munged_data)
DataColumns == {"bill_start_date", "cost_center", "cost"}

\* the rows of synapseclient.Table(table_id, munged_data): the rows of the
\* summary, each with the bill date of the report in its bill date column
TableRows(data) ==
    [i \in 1 .. 2 |-> [bill_date |-> <<data[1]>>, data |-> data, row |-> i]]

\* what the Synapse table can hold when an App is made: nothing, or the rows
\* earlier invocations stored for one or two bill dates
SynapseTables ==
    {<<>>,
     TableRows(<<"year=2022/month=6", EmptyDict>>),
     TableRows(<<"year=2022/month=5", EmptyDict>>) \o TableRows(<<"year=2022/month=6", EmptyDict>>)}

\* lines 193-194: the rows of the table whose bill date is date
TableQuery(rows, date) == SelectSeq(rows, LAMBDA r : r.bill_date = date)

\* a delete that drops no row
DropNothing(rows, old) == rows

\* line 201, App.synclient.delete(old): the table without the rows of the query result
DropOutdated(rows, old) ==
    SelectSeq(rows, LAMBDA r : \A k \in 1 .. Len(old) : old[k] # r)

\* lines 172-208: the calls on App.synclient, in the order of the code; the
\* store of line 190 is made only when a column was added
SynapseCalls(altered, date, old, data) ==
    <<[op |-> "login", line |-> 172, arg |-> <<>>],
      [op |-> "get", line |-> 175, arg |-> TableId],
      [op |-> "getTableColumns", line |-> 178, arg |-> TableId]>>
    \o (IF altered THEN <<[op |-> "store", line |-> 190, arg |-> TableId]>> ELSE <<>>)
    \o <<[op |-> "tableQuery", line |-> 194, arg |-> date],
         [op |-> "delete", line |-> 201, arg |-> old],
         [op |-> "store", line |-> 205, arg |-> TableRows(data)],
         [op |-> "logout", line |-> 208, arg |-> <<>>]>>

\* update_synapse.  __init__ never sets bill_date, so reading it at line 157
\* before process_report has set it raises AttributeError.  Past the four
\* checks the calls are made in order; any of them can raise, which ends the
\* method with the calls before it done.
update_synapse ==
    /\ app_pc = "idle"
    /\ Callable("update_synapse")
    /\ app_op' = "update_synapse"
    /\ IF bill_date = Unset
       THEN /\ app_exception' = "AttributeError"
            /\ synapse_calls' = <<>>
            /\ UNCHANGED <<synapse_columns, synapse_rows>>
       ELSE IF munged_data = Unset
       THEN /\ app_exception' = "No data generated"
            /\ synapse_calls' = <<>>
            /\ UNCHANGED <<synapse_columns, synapse_rows>>
       ELSE IF "SYNAPSE_TABLE" \notin environ
       THEN /\ app_exception' = "Environment variable 'SYNAPSE_TABLE' must be set"
            /\ synapse_calls' = <<>>
            /\ UNCHANGED <<synapse_columns, synapse_rows>>
       ELSE IF "SYNAPSE_AUTH_TOKEN" \notin environ
       THEN /\ app_exception' = "Environment variable 'SYNAPSE_AUTH_TOKEN' must be set"
            /\ synapse_calls' = <<>>
            /\ UNCHANGED <<synapse_columns, synapse_rows>>
       ELSE \E altered \in {DataColumns \ synapse_columns # {}},
               old \in {TableQuery(synapse_rows, bill_date)} :
            \E plan \in {SynapseCalls(altered, bill_date, old, munged_data)} :
            \E made \in 1 .. Len(plan), raised \in BOOLEAN :
                LET done(line) ==
                        \E i \in 1 .. made : plan[i].line = line /\ (i < made \/ ~raised)
                    kept == IF done(201) THEN DropOutdated(synapse_rows, old) ELSE synapse_rows
                IN  /\ ~raised => made = Len(plan)
                    /\ synapse_calls' = SubSeq(plan, 1, made)
                    /\ synapse_columns' =
                           IF done(190) THEN synapse_columns \cup DataColumns ELSE synapse_columns
                    /\ synapse_rows' =
                           IF done(205) THEN kept \o TableRows(munged_data) ELSE kept
                    /\ app_exception' = IF raised THEN "synapseclient" ELSE ""
    /\ run_pc' = RunThen("update_synapse", app_exception' # "")
    /\ UNCHANGED <<org_pages, app_pc, accounts_list, token, account_dict, cur_parquet, bill_date,
                   munged_data, app_total, finops_args, environ,
                   mainVars, lookupVars>>

\* lambda_handler, lines 261-262: a new App, and run() called on it
lambda_handler ==
    /\ app_pc = "idle"
    /\ run_pc \in {"", "returned", "raised"}
    /\ account_dict' = EmptyDict
    /\ cur_parquet' = NoParquet
    /\ munged_data' = Unset
    /\ bill_date' = Unset
    /\ app_total' = Unset
    /\ accounts_list' = <<>>
    /\ token' = ""
    /\ app_op' = "run"
    /\ app_exception' = ""
    /\ run_pc' = "build_account_dict"
    /\ UNCHANGED <<org_pages, app_pc, finops_args, synapseVars, mainVars, lookupVars>>

\* ------------------------------------------------------ specifications ----

MainIdle ==
    /\ acct_rows = <<>>
    /\ accounts = <<>>
    /\ pc = "idle"
    /\ exception = ""
    /\ report_body = <<>>
    /\ by_center = <<>>
    /\ center_summed = <<>>
    /\ total = 0
    /\ total_cost = 0

LookupIdle ==
    /\ frame = <<>>
    /\ called = ""
    /\ checked = None
    /\ valid_ret = FALSE
    /\ label_ret = None

AppIdle ==
    /\ org_pages = <<>>
    /\ app_pc = "off"
    /\ app_op = ""
    /\ accounts_list = <<>>
    /\ token = ""
    /\ account_dict = EmptyDict
    /\ cur_parquet = NoParquet
    /\ bill_date = Unset
    /\ munged_data = Unset
    /\ app_total = Unset
    /\ app_exception = ""
    /\ finops_args = {}
    /\ run_pc = ""
    /\ environ = {}
    /\ synapse_columns = {}
    /\ synapse_rows = <<>>
    /\ synapse_calls = <<>>

\* finops.main on every table and directory of the bounds
Init ==
    /\ acct_rows \in Tables
    /\ accounts \in Directories
    /\ pc = "start"
    /\ exception = ""
    /\ report_body = <<>>
    /\ by_center = <<>>
    /\ center_summed = <<>>
    /\ total = 0
    /\ total_cost = 0
    /\ LookupIdle
    /\ AppIdle

Next == main

Spec == Init /\ [][Next]_vars

\* the attribution functions on every frame of at most one row
InitLookup ==
    /\ frame \in Frames
    /\ called = ""
    /\ checked = None
    /\ valid_ret = FALSE
    /\ label_ret = None
    /\ MainIdle
    /\ AppIdle

NextLookup == CallValidValue \/ CallCostCenterLookup \/ CallGroupByCostCenter

SpecLookup == InitLookup /\ [][NextLookup]_vars

\* an App after __init__, its methods called in any order
InitApp ==
    /\ org_pages \in OrgListings
    /\ app_pc = "idle"
    /\ app_op = ""
    /\ accounts_list = <<>>
    /\ token = ""
    /\ account_dict = EmptyDict
    /\ cur_parquet = NoParquet
    /\ bill_date = Unset
    /\ munged_data = Unset
    /\ app_total = Unset
    /\ app_exception = ""
    /\ finops_args = {}
    /\ run_pc = ""
    /\ environ \in SUBSET SynapseEnviron
    /\ synapse_columns \in {{}, DataColumns}
    /\ synapse_rows \in SynapseTables
    /\ synapse_calls = <<>>
    /\ MainIdle
    /\ LookupIdle

NextApp ==
    \/ build_account_dict_first
    \/ build_account_dict_while
    \/ build_account_dict_tags
    \/ download_cur_parquet
    \/ process_report
    \/ update_synapse
    \/ lambda_handler

SpecApp == InitApp /\ [][NextApp]_vars

\* ------------------------------------------------------------- claims ----

\* validity as the specification defines it: None, NaN and 'na' are invalid
Invalid(value) == value \in {None, NaN, na}

\* normalization then canonicalization of a tag
Canonical(value) == LET n == ReSub(value) IN TagReplacementGet(n, n)

\* an underscore followed by at least five digits
HasUnderscoreCode(chars) ==
    \E i \in 1 .. Len(chars) : chars[i] = "_" /\ DigitRun(chars, i + 1, 6) >= 5

\* the exact sum of the costs of the rows in idxs
RECURSIVE ExactSum(_, _)
ExactSum(rows, idxs) ==
    IF idxs = {} THEN 0
    ELSE LET i == CHOOSE j \in idxs : TRUE
         IN  rows[i][VALUE_COLUMN] + ExactSum(rows, idxs \ {i})

AllRows == 1 .. Len(acct_rows)

\* the sum of the cost of every line item, before any join or filter
Baseline == FSum([i \in AllRows |-> acct_rows[i][VALUE_COLUMN]])

\* the sum of all group sums, in the order of the summary
GroupTotal == FSum([k \in 1 .. Len(center_summed) |-> center_summed[k].cost])

\* main got as far as grouping the rows
Grouped == pc # "start" /\ exception # "TypeError"

HasTotalLine == \E k \in 1 .. Len(report_body) : report_body[k].text = "Total:"

\* C1: main returns a report only when the sum of the group sums is within 0.01
\* of the sum of the cost of every line item; whenever the two differ by more,
\* it raises, and the report holds no "Total:" line.
C1_ReturnsOnlyReconciled ==
    /\ pc = "returned" => Abs(GroupTotal - Baseline) <= Tolerance /\ HasTotalLine
    /\ Grouped /\ Abs(GroupTotal - Baseline) > Tolerance =>
          pc = "raised" /\ exception # "" /\ ~HasTotalLine

\* C1 witness: three rows whose group sums add up to more than a cent away from
\* the sum of the rows, and main has raised
C1_Witness ==
    /\ pc = "raised"
    /\ exception = "categorized costs do not add up to total bill."
    /\ Abs(GroupTotal - Baseline) > Tolerance

\* C2: once main has grouped the rows, every line item is in exactly one group,
\* a group with a null key included, every group has its line in the summary, and
\* the groups' costs add up, exactly, to the costs of the line items.
C2_GroupsPartitionRows ==
    Grouped =>
        /\ \A i \in AllRows :
              Cardinality({l \in DOMAIN by_center : i \in by_center[l]}) = 1
        /\ \A l \in DOMAIN by_center : by_center[l] # {} /\ by_center[l] \subseteq AllRows
        /\ Len(center_summed) = Cardinality(DOMAIN by_center)
        /\ \A l \in DOMAIN by_center :
              \E k \in 1 .. Len(center_summed) :
                  /\ center_summed[k].label = l
                  /\ center_summed[k].cost = FSum(CostsOf(acct_rows, by_center[l], 1))
        /\ ExactSum(acct_rows, UNION {by_center[l] : l \in DOMAIN by_center})
              = ExactSum(acct_rows, AllRows)

\* C2 witness: a report of three rows of non-zero cost, two of them in the
\* null-key group, the third in another group
C2_Witness ==
    /\ pc = "returned"
    /\ Len(acct_rows) = 3
    /\ \A i \in AllRows : acct_rows[i][VALUE_COLUMN] # 0
    /\ NaN \in DOMAIN by_center
    /\ Cardinality(by_center[NaN]) = 2
    /\ Cardinality(DOMAIN by_center) = 2

\* C3: valid_value returns False for None, for 'na' and for NaN, and True for
\* every other value.
C3_ValidValue ==
    called = "valid_value" => (valid_ret <=> ~Invalid(checked))

\* C4: with None, NaN and 'na' invalid: a valid tag other than 'Other / 000001'
\* resolves to its normalized and canonicalized form; an invalid tag with a valid
\* account default resolves to the account default; both invalid resolve to
\* 'Unknown / 999999'.
C4_FallbackChain ==
    called = "group_by_cost_center" /\ 1 \in DOMAIN frame =>
        LET tag == frame[1][COST_CENTER_COLUMN]
            default == frame[1][ACCOUNT_COST_CENTER_COLUMN]
        IN  /\ ~Invalid(tag) /\ tag # Other000001 => label_ret = Canonical(tag)
            /\ Invalid(tag) /\ ~Invalid(default) => label_ret = default
            /\ Invalid(tag) /\ Invalid(default) => label_ret = Unknown999999

\* C5: a tag 'Other / 000001' resolves to the cost_center_other tag, normalized
\* and canonicalized, when that tag is valid, and to 'Other (Unspecified) / 000001'
\* when it is not, whatever the account default is.
C5_OtherEscalation ==
    called = "group_by_cost_center" /\ 1 \in DOMAIN frame
        /\ frame[1][COST_CENTER_COLUMN] = Other000001 =>
        LET other == frame[1][COST_CENTER_OTHER_COLUMN]
        IN  IF Invalid(other)
            THEN label_ret = OtherUnspecified
            ELSE label_ret = Canonical(other)

\* C6: attribution never raises and never returns an absent or empty label: for
\* every frame, row present or missing, it returns a non-empty string.
C6_AlwaysALabel ==
    called = "group_by_cost_center" => label_ret.kind = "str" /\ label_ret.s # <<>>

\* C7: a line item whose account id has no directory entry never makes main fail,
\* and is attributed to the label of its own cost_center tag when that tag is
\* valid, to 'Unknown / 999999' only when it is not.
C7_UnmatchedAccount ==
    LET unmatched == {i \in AllRows : acct_rows[i][ACCOUNT_ID_COLUMN] \notin DOMAIN accounts}
        tag(i) == acct_rows[i][COST_CENTER_COLUMN]
        expected(i) ==
            IF Invalid(tag(i)) THEN Unknown999999 ELSE cost_center_lookup(i :> acct_rows[i], i)
    IN  /\ pc # "start" /\ unmatched = AllRows => pc = "returned"
        /\ Grouped =>
              \A i \in unmatched :
                  expected(i) \in DOMAIN by_center /\ i \in by_center[expected(i)]

\* C8: a label returned by group_by_cost_center never contains an underscore
\* followed by 5 or 6 digits: the account default 'Name_123456' resolves to
\* 'Name / 123456' as the line-item tag 'Name_123456' does.
C8_EveryLabelNormalized ==
    called = "group_by_cost_center" /\ label_ret.kind = "str" =>
        ~HasUnderscoreCode(label_ret.s)

\* C9: process_report raises at once, without calling finops.main and without
\* setting munged_data or total, whenever account_dict is still empty or
\* cur_parquet is None.
C9_ProcessReportNeedsInputs ==
    /\ app_op = "process_report" /\ (account_dict.keys = {} \/ cur_parquet = NoParquet) =>
          app_exception \in {"No account tag data loaded", "No cost and usage data loaded"}
    /\ \A a \in finops_args : a[1] # NoParquet /\ a[2].keys # {}
    /\ munged_data # Unset => munged_data[2].keys # {}

\* C10: line items of cost exactly 0.0 count toward the baseline and are left out
\* of the grouping: every group of the summary holds a line item of another cost.
C10_ZeroCostRowsNotGrouped ==
    Grouped =>
        /\ total_cost = Baseline
        /\ \A l \in DOMAIN by_center : \E i \in by_center[l] : acct_rows[i][VALUE_COLUMN] # 0
        /\ \A k \in 1 .. Len(center_summed) : center_summed[k].label \in DOMAIN by_center

\* every account of the listing, page after page
RECURSIVE AllAccountsFrom(_, _)
AllAccountsFrom(pages, p) ==
    IF p > Len(pages) THEN <<>> ELSE pages[p] \o AllAccountsFrom(pages, p + 1)

AllAccounts == AllAccountsFrom(org_pages, 1)

\* how many entries of the list ids are id
Occurrences(ids, id) == Cardinality({i \in 1 .. Len(ids) : ids[i] = id})

\* build_account_dict has run to its end
Built == app_op = "build_account_dict" /\ app_pc = "idle"

\* C11: build_account_dict requests each page of the listing once, in order, and
\* stops after the page without a NextToken: the accounts it has collected are
\* always the first accounts of the listing, the loop is over once the last page
\* is in, and when it is done every account with a CostCenter tag is in
\* account_dict exactly once, an account without the tag not at all.
C11_BuildAccountDictPaginates ==
    /\ Len(accounts_list) <= Len(AllAccounts)
    /\ \A i \in 1 .. Len(accounts_list) :
          i <= Len(AllAccounts) => accounts_list[i] = AllAccounts[i]
    /\ app_pc = "while" /\ Len(accounts_list) >= Len(AllAccounts) => token = ""
    /\ Built =>
          \A i \in 1 .. Len(AllAccounts) :
              Occurrences(account_dict.account_id, AllAccounts[i].Id)
                  = IF AllAccounts[i].CostCenter # NoTag THEN 1 ELSE 0

\* the rows the table holds for the bill date of the App
CurrentRows == TableQuery(synapse_rows, bill_date)

\* the last update_synapse made the call of this line of app.py
Called(line) == \E i \in 1 .. Len(synapse_calls) : synapse_calls[i].line = line

=============================================================================
